---- MODULE Spec2Model ----
(***************************************************************************)
(* FaissVectorStore (src/app/vector_store.py): a FAISS inner-product index *)
(* and a JSON metadata list kept side by side in memory and in two files.  *)
(* The model follows the constructor (load, length repair), add_documents  *)
(* (validation, two in-memory appends, two file rewrites) and search, with *)
(* process crashes, failed writes and request threads.                     *)
(***************************************************************************)
EXTENDS Integers, Sequences, FiniteSets, TLC

VARIABLES
    index_file,     \* the file at index_path
    metadata_file,  \* the file at metadata_path
    store,          \* where the constructor of the process-wide store stands
    index,          \* self.index: the vectors, in position order
    metadata,       \* self.metadata: the records, in position order
    loaded,         \* history: what the constructor's two loads returned
    pc,             \* per request thread: its position inside add_documents
    args,           \* per request thread: the arguments of its latest call
    call_no,        \* per request thread: the number of its latest call
    outcome,        \* per request thread: how its latest call ended
    calls,          \* history: add_documents calls made so far
    acked,          \* history: pairs of the calls that returned after writing
    observed,       \* the search call: the line it stands at, what it was
                    \* given and what it has read of the store, read by read
    results,        \* the list the search call builds and returns
    chunking,       \* the latest chunk_text call: its arguments and its end
    dumped          \* per request thread: the file object it has open on
                    \* the metadata file (how far json.dump has come, and
                    \* where the bytes of its text are)

vars == <<index_file, metadata_file, store, index, metadata, loaded,
          pc, args, call_no, outcome, calls, acked, observed, results,
          chunking, dumped>>

(***************************************************************************)
(* Bounds of the model.                                                    *)
(***************************************************************************)
MaxCalls == 2
MaxBatch == 2
MaxSeed == 2
MaxQueriedCalls == 1
MaxText == 4
MaxChunkSize == 3

\* self.dimension, fixed by the constructor for the lifetime of the artifacts.
Dimension == 2

\* Request threads: the web framework runs each non-async endpoint call on a
\* worker thread. Sequential is the one thread of the one-at-a-time runs.
Threads == {1, 2}
Sequential == {1}

(***************************************************************************)
(* Values.                                                                 *)
(***************************************************************************)
Min(a, b) == IF a < b THEN a ELSE b
Max(a, b) == IF a > b THEN a ELSE b

Prefix(s, n) == SubSeq(s, 1, n)

IsPrefix(s, t) == Len(s) <= Len(t) /\ s = Prefix(t, Len(s))

\* Python values of the chunk metadata dictionaries: str and int, as
\* build_document_chunks makes them, and floats (of whole numbers), tuples
\* and lists of ints, which another caller of add_documents may pass
\* (metadata is Dict[str, Any]).
PyStr(s) == [py |-> "str", val |-> s]
PyInt(n) == [py |-> "int", val |-> n]
PyFloat(n) == [py |-> "float", val |-> n]
PyTuple(ns) == [py |-> "tuple", val |-> ns]
PyList(ns) == [py |-> "list", val |-> ns]

\* Nothing checks the keys of a metadata dict either. A key that is an int
\* is written here as a name of its own, beside the text json makes of it.
IntKeyText == [k \in {"7 (int)"} |-> "7"]

\* Vectors of one length, as embed_documents and embed_query make them
\* (normalize_embeddings=True); the length is 5 in place of 1, which keeps
\* the components and the scores whole numbers.
Normalized ==
    <<<<3, 4>>, <<4, 3>>, <<5, 0>>, <<0, 5>>, <<-3, 4>>, <<4, -3>>,
      <<-4, 3>>, <<3, -4>>, <<-5, 0>>, <<0, -5>>, <<-3, -4>>, <<-4, -3>>>>

\* The i-th of them, in turn.
normalized_row(i) == Normalized[((i - 1) % Len(Normalized)) + 1]

\* Row j of the array of rows of length d passed to the c-th call: the
\* vectors above in turn, each call going on where the call before it
\* stopped, when d is the store's dimension (the texts of different calls
\* embed differently; a vector the store held at the start may come again),
\* one fixed row otherwise.
Row(d, c, j) ==
    IF d = Dimension THEN normalized_row((c - 1) * MaxBatch + j)
    ELSE [k \in 1..d |-> IF k = 1 THEN 5 ELSE 0]

\* embeddings of the c-th call: a two-dimensional array, shape
\* (Len(rows), shape1).
Arrays(c) ==
    {[shape1 |-> d, rows |-> [j \in 1..n |-> Row(d, c, j)]]
        : n \in 0..MaxBatch, d \in {Dimension - 1, Dimension, Dimension + 1}}

\* Query vectors.
Queries == {normalized_row(i) : i \in 1..Dimension}

ContentPool == <<"alpha", "beta", "gamma", "delta">>

ContentOf(j) == ContentPool[((j - 1) % Len(ContentPool)) + 1]

\* DocumentChunk(content, metadata) number j of a document.
Chunk(j) ==
    [content |-> ContentOf(j),
     metadata |-> [source_path |-> PyStr("/data/doc.txt"),
                   document_name |-> PyStr("doc.txt"),
                   chunk_index |-> PyInt(j - 1)]]

ChunkLists == {[j \in 1..k |-> Chunk(j)] : k \in 0..MaxBatch}

\* Contents longer than the ingest endpoint makes them (add_documents takes
\* any chunks): "alpha" written 1000 times and 2000 times.
LongContentPool == <<"alpha*1000", "alpha*2000">>
LongContentChars == <<5000, 10000>>

\* Chunk j with another content.
ChunkOf(j, content) == [content |-> content, metadata |-> Chunk(j).metadata]

\* Lists of chunks of one long content.
LongChunkLists ==
    {[j \in 1..k |-> ChunkOf(j, LongContentPool[c])]
        : k \in 1..MaxBatch, c \in 1..Len(LongContentPool)}

\* Metadata of other callers: a tuple value, a list value, a float value, an
\* int key.
TupleMetadata == [document_name |-> PyStr("doc.txt"), pages |-> PyTuple(<<1, 2>>)]
ListMetadata == [document_name |-> PyStr("doc.txt"), pages |-> PyList(<<1, 2>>)]
FloatMetadata == [document_name |-> PyStr("doc.txt"), weight |-> PyFloat(1)]
IntKeyMetadata ==
    [k \in {"document_name", "7 (int)"} |->
        IF k = "document_name" THEN PyStr("doc.txt") ELSE PyStr("seven")]

\* The lists of chunks of any caller: those of the ingest endpoint, and one
\* chunk with each of the other metadata.
CallerChunkLists ==
    ChunkLists \cup
    {<<[content |-> ContentOf(1), metadata |-> m]>>
        : m \in {TupleMetadata, ListMetadata, FloatMetadata, IntKeyMetadata}}

NoArgs == [embeddings |-> [shape1 |-> Dimension, rows |-> <<>>], chunks |-> <<>>]

\* numpy: shape[0], shape[1], size.
shape0(embeddings) == Len(embeddings.rows)
shape1(embeddings) == embeddings.shape1
size(embeddings) == shape0(embeddings) * shape1(embeddings)

(***************************************************************************)
(* Files. A file is absent, torn (opened for writing, which empties it,    *)
(* and not yet written whole: no reader can parse it), or whole.           *)
(***************************************************************************)
AbsentFile == [kind |-> "absent", data |-> <<>>]
TornFile == [kind |-> "torn", data |-> <<>>]
WholeFile(data) == [kind |-> "whole", data |-> data]

\* json.dump of one metadata value: a str is written as a JSON string, an
\* int as a number without a fraction, a float as one with a fraction, a
\* tuple and a list alike as an array. (A value json has no text for, a set
\* for one, makes json.dump raise TypeError: the call does not succeed.)
json_dump_value(v) ==
    CASE v.py = "str" -> [json |-> "string", lit |-> v.val]
      [] v.py = "int" -> [json |-> "number", lit |-> v.val]
      [] v.py = "float" -> [json |-> "float", lit |-> v.val]
      [] v.py \in {"tuple", "list"} -> [json |-> "array", lit |-> v.val]

\* json.load of one value: a string gives a str, a number without a fraction
\* an int, one with a fraction a float, an array a list.
json_load_value(j) ==
    CASE j.json = "string" -> PyStr(j.lit)
      [] j.json = "number" -> PyInt(j.lit)
      [] j.json = "float" -> PyFloat(j.lit)
      [] j.json = "array" -> PyList(j.lit)

\* The key json.dump writes for a key of a dict: the str itself, or the
\* digits of an int.
json_key(k) == IF k \in DOMAIN IntKeyText THEN IntKeyText[k] ELSE k

\* json.dump(self.metadata, f): the list of objects, each with every key of
\* its record; a score (which no stored record has) would be a float. src is
\* the history tag of the record (which call and which chunk of it), not
\* program data.
json_dump(records) ==
    [p \in 1..Len(records) |->
        [k \in DOMAIN records[p] |->
            CASE k = "content" -> [json |-> "string", lit |-> records[p][k]]
              [] k = "metadata" ->
                   [f \in {json_key(g) : g \in DOMAIN records[p][k]} |->
                       json_dump_value(
                           records[p][k][CHOOSE g \in DOMAIN records[p][k] :
                                             json_key(g) = f])]
              [] k = "src" -> records[p][k]
              [] OTHER -> [json |-> "float", lit |-> records[p][k]]]]

\* json.load(f): the list of dicts, the keys as the strings of the text.
json_load(text) ==
    [p \in 1..Len(text) |->
        [k \in DOMAIN text[p] |->
            CASE k = "metadata" -> [f \in DOMAIN text[p][k] |->
                                       json_load_value(text[p][k][f])]
              [] k = "src" -> text[p][k]
              [] OTHER -> text[p][k].lit]]

(***************************************************************************)
(* The metadata file byte by byte. json.dump writes its text chunk by      *)
(* chunk to the file object that open("w") returned, which holds the bytes *)
(* back in two buffers and writes them at its own offset, whatever another *)
(* writer's open or write has done to the file since.                      *)
(***************************************************************************)
\* io.TextIOWrapper keeps the chunks it is given until they reach this many
\* bytes (its _CHUNK_SIZE).
text_chunk_size == 8192

\* io.BufferedWriter's buffer: open() sizes it by the block size of the file
\* system (st_blksize).
buffer_size == 4096

\* How many characters a string has; the names of LongContentPool stand for
\* the texts they spell out ("alpha" written 1000 times, 2000 times).
str_len(s) ==
    IF \E i \in 1..Len(LongContentPool) : LongContentPool[i] = s
    THEN LongContentChars[CHOOSE i \in 1..Len(LongContentPool) : LongContentPool[i] = s]
    ELSE Len(s)

RECURSIVE digits(_)
\* The characters of str(n).
digits(n) ==
    IF n < 0 THEN 1 + digits(0 - n)
    ELSE IF n < 10 THEN 1 ELSE 1 + digits(n \div 10)

\* The bytes of one JSON string or number (ensure_ascii=False, UTF-8, and
\* the strings are ASCII without characters to escape); a float of a whole
\* number is written with ".0".
json_value_len(j) ==
    CASE j.json = "number" -> digits(j.lit)
      [] j.json = "float" -> digits(j.lit) + 2
      [] OTHER -> str_len(j.lit) + 2

\* The chunks json's encoder yields for a value of a metadata dict: one for
\* a string or a number; for an array "[]", or one for each number (with the
\* bracket or the comma, the line break and the indent before it), the line
\* break and "]".
value_tokens(j) ==
    IF j.json # "array" THEN <<json_value_len(j)>>
    ELSE IF j.lit = <<>> THEN <<2>>
    ELSE [i \in 1..Len(j.lit) |-> 10 + digits(j.lit[i])] \o <<7, 1>>

\* The keys of a chunk's metadata dict in the order the dict holds them.
dict_keys(d) ==
    SelectSeq(<<"source_path", "document_name", "chunk_index", "pages", "weight", "7">>,
              LAMBDA k : k \in DOMAIN d)

RECURSIVE item_tokens(_, _, _)
\* The chunks json's encoder yields for the first n items of a dict at the
\* second level of indent=2: the separator, the key, ": ", the value.
item_tokens(d, keys, n) ==
    IF n = 0 THEN <<>>
    ELSE item_tokens(d, keys, n - 1) \o
         <<IF n = 1 THEN 7 ELSE 8, str_len(keys[n]) + 2, 2>> \o
         value_tokens(d[keys[n]])

\* The chunks for a metadata dict: "{}", or "{", its items, the line break
\* and "}".
dict_tokens(d) ==
    IF DOMAIN d = {} THEN <<2>>
    ELSE <<1>> \o item_tokens(d, dict_keys(d), Len(dict_keys(d))) \o <<5, 1>>

\* The lengths of the chunks json.dump(..., indent=2) writes for one record
\* of the list, in order: "[" or "," with the line break, "{", the content
\* item, the metadata item, a score item if the record has one, the line
\* break and "}".
record_tokens(j) ==
    <<4, 1, 5, 9, 2, json_value_len(j.content), 6, 10, 2>>
    \o dict_tokens(j.metadata)
    \o (IF "score" \in DOMAIN j THEN <<6, 7, 2, json_value_len(j.score)>> ELSE <<>>)
    \o <<3, 1>>

RECURSIVE sum(_)
sum(ns) == IF ns = <<>> THEN 0 ELSE Head(ns) + sum(Tail(ns))

RECURSIVE emitted_size(_)
\* The bytes of the text of a list up to the "}" of its last record.
emitted_size(text) ==
    IF text = <<>> THEN 0
    ELSE emitted_size(Prefix(text, Len(text) - 1)) + sum(record_tokens(text[Len(text)]))

\* The bytes of the whole text of a list: "[]", or the records and "\n]".
text_size(text) == IF text = <<>> THEN 2 ELSE emitted_size(text) + 2

\* The offsets at which the text of a list differs from the text of every
\* longer list: those of its closing "\n]" (of "]" for the empty list).
close_positions(text) ==
    IF text = <<>> THEN {1} ELSE {text_size(text) - 2, text_size(text) - 1}

\* A file object nobody has written to: records counts the records of the
\* list json.dump has gone through (the list only grows and its records are
\* never changed, so the text so far is that of its first records entries),
\* closed says that it has written the closing bracket; of the bytes of that
\* text, written have gone to the file, queue holds the sizes of the write
\* calls on the file that are due, in order, buffered are the bytes in the
\* BufferedWriter and pending those in the TextIOWrapper.
NoWriter ==
    [records |-> 0, closed |-> FALSE, written |-> 0, queue |-> <<>>,
     buffered |-> 0, pending |-> 0]

\* BufferedWriter.write of n bytes: kept when they fit in the buffer; else
\* the buffer is written to the file, and the n bytes too, in a write call
\* of their own, when they are more than a buffer holds.
buffered_write(w, n) ==
    IF n <= buffer_size - w.buffered THEN [w EXCEPT !.buffered = @ + n]
    ELSE LET flushed == IF w.buffered = 0 THEN w
                        ELSE [w EXCEPT !.queue = Append(@, w.buffered),
                                       !.buffered = 0]
         IN IF n > buffer_size THEN [flushed EXCEPT !.queue = Append(@, n)]
            ELSE [flushed EXCEPT !.buffered = n]

\* TextIOWrapper passes its pending bytes on to the BufferedWriter.
writeflush(w) ==
    IF w.pending = 0 THEN w
    ELSE buffered_write([w EXCEPT !.pending = 0], w.pending)

\* TextIOWrapper.write of a chunk of n bytes: the pending bytes go first when
\* the chunk would take them past text_chunk_size, the chunk is added, and
\* the pending bytes go when they have reached text_chunk_size.
text_write(w, n) ==
    LET made_room == IF w.pending > 0 /\ w.pending + n > text_chunk_size
                     THEN writeflush(w) ELSE w
        added == [made_room EXCEPT !.pending = @ + n]
    IN IF added.pending >= text_chunk_size THEN writeflush(added) ELSE added

RECURSIVE write_tokens(_, _)
\* for chunk in iterable: fp.write(chunk). Each write has left fewer than
\* text_chunk_size bytes pending when the next chunk is taken.
write_tokens(w, tokens) ==
    IF tokens = <<>> THEN w
    ELSE LET v == text_write(w, Head(tokens))
         IN IF v.pending < text_chunk_size THEN write_tokens(v, Tail(tokens))
            ELSE write_tokens(writeflush(v), Tail(tokens))

\* Closing the file object: both buffers are written out.
close_writer(w) ==
    LET v == writeflush(w)
    IN IF v.buffered = 0 THEN v
       ELSE [v EXCEPT !.queue = Append(@, v.buffered), !.buffered = 0]

\* The first write call that is due has been made.
after_write(w) ==
    [w EXCEPT !.written = @ + Head(w.queue), !.queue = Tail(@)]

\* How many of the n bytes of a write call that fails may have reached the
\* file when the file object is gone: any number of them. A write(2) call
\* may put a part of its bytes and the next one fail, and the close on the
\* way out of the with block tries once more to write what the
\* BufferedWriter still holds, which puts the rest when the failure has
\* passed.
PartialWrites(n) == 0..n

\* The metadata file right after open("w"): no bytes. A file that does not
\* parse keeps, beside the list its bytes were taken from (data), how many
\* bytes it has, the ranges of bytes nobody wrote (holes, which lie before a
\* write past the end and read as NUL), and the offsets that hold a byte of
\* a closing bracket.
EmptiedFile == [kind |-> "torn", data |-> <<>>, bytes |-> 0, holes |-> {}, closes |-> {}]

\* A whole file that has bytes after its text (blanks, which json.load
\* passes over).
TrailedFile(data, bytes) == [kind |-> "whole", data |-> data, bytes |-> bytes]

file_bytes(file) ==
    CASE "bytes" \in DOMAIN file -> file.bytes
      [] file.kind = "whole" -> text_size(file.data)
      [] OTHER -> 0

file_holes(file) == IF file.kind = "torn" THEN file.holes ELSE {}

file_closes(file) ==
    CASE file.kind = "whole" -> close_positions(file.data)
      [] file.kind = "torn" -> file.closes
      [] OTHER -> {}

\* The file with these bytes, as a reader finds it: whole when the bytes are
\* the text of the first n records, for some n, and at most the two blanks
\* that follow at these offsets in the text of a longer list; else one that
\* does not parse. The writers of one process write texts of one list that only
\* grows, so the bytes that are not of a closing bracket are those of the
\* longest of the texts (base).
file_of(base, bytes, holes, closes) ==
    LET fits == {n \in 0..Len(base) :
                    /\ bytes \in text_size(Prefix(base, n))..(text_size(Prefix(base, n)) + 2)
                    /\ close_positions(Prefix(base, n)) = closes}
        held == {n \in 0..Len(base) : emitted_size(Prefix(base, n)) >= bytes}
    IN IF holes = {} /\ fits # {}
       THEN LET data == Prefix(base, CHOOSE n \in fits : TRUE)
            IN IF bytes = text_size(data) THEN WholeFile(data)
               ELSE TrailedFile(data, bytes)
       ELSE [kind |-> "torn",
             data |-> IF held = {} THEN base
                      ELSE Prefix(base, CHOOSE n \in held : \A m \in held : n <= m),
             bytes |-> bytes, holes |-> holes, closes |-> closes]

\* The file after a writer, whose text so far is that of items (with the
\* closing bracket when closed), has written the bytes from..to-1 of it at
\* their offsets.
raw_write(file, items, closed, from, to) ==
    IF to = from THEN file
    ELSE LET old == file_bytes(file)
             before == {h \in file_holes(file) : h[1] < from}
             after == {h \in file_holes(file) : h[2] > to}
             mine == IF closed THEN close_positions(items) ELSE {}
         IN file_of(IF Len(items) > Len(file.data) THEN items ELSE file.data,
                    Max(old, to),
                    {<<h[1], Min(h[2], from)>> : h \in before}
                       \cup {<<Max(h[1], to), h[2]>> : h \in after}
                       \cup (IF from > old THEN {<<old, from>>} ELSE {}),
                    {c \in file_closes(file) : c < from \/ c >= to}
                       \cup {c \in mine : from <= c /\ c < to})

\* faiss.write_index of an IndexFlatIP: the dimension d, the count ntotal,
\* and the components of all vectors in one run, row after row (src: the
\* history tags of the rows, not program data).
write_index(idx) ==
    WholeFile([d |-> Dimension,
               ntotal |-> Len(idx),
               xb |-> [i \in 1..(Len(idx) * Dimension) |->
                         idx[((i - 1) \div Dimension) + 1].vec[((i - 1) % Dimension) + 1]],
               src |-> [p \in 1..Len(idx) |-> idx[p].src]])

\* faiss.read_index: an index of ntotal rows of d components each, cut from
\* the run in the file.
read_index(file) ==
    [p \in 1..file.data.ntotal |->
        [vec |-> [k \in 1..file.data.d |-> file.data.xb[(p - 1) * file.data.d + k]],
         src |-> file.data.src[p]]]

\* _load_index: the file's index, or an empty IndexFlatIP when there is none.
load_index(file) == IF file.kind = "absent" THEN <<>> ELSE read_index(file)

load_metadata_inverted(file) ==
    IF file.kind = "absent" THEN json_load(file.data) ELSE <<>>

\* _load_metadata: [] when there is no file, else json.load of it.
load_metadata(file) == IF file.kind = "absent" THEN <<>> ELSE json_load(file.data)

\* What the two loads of the constructor raise on: a file that does not parse.
Loadable(ifile, mfile) == ifile.kind # "torn" /\ mfile.kind # "torn"

(***************************************************************************)
(* The constructor.                                                        *)
(***************************************************************************)
\* min_size = min(self.index.ntotal, len(self.metadata))
min_size(ntotal, len) == Min(ntotal, len)

\* _shrink_index: xb.reshape(ntotal, dimension)[:size] in a new index.
shrink_index(xb, n) == Prefix(xb, n)

\* Line 43 reads self.index.xb. Whether IndexFlat has that attribute depends
\* on the faiss release the process runs (later ones keep the vectors in
\* codes), and the repository names no release: a start may find either.
IndexFlatHasXb == BOOLEAN

NotLoaded == [index |-> <<>>, metadata |-> <<>>]

Idle == [t \in Threads |-> "idle"]

\* No thread has the metadata file open.
NothingDumped == [t \in Threads |-> NoWriter]

\* __init__, lines 22-27: the two loads, then either the store is ready or
\* the repair starts. A file that does not parse makes the load raise, and
\* no store is constructed. Nor is one when the index is the longer side and
\* line 43 finds no xb: the constructor raises AttributeError.
Construct ==
    /\ store = "down"
    /\ Loadable(index_file, metadata_file)
    /\ LET idx == load_index(index_file)
           md == load_metadata(metadata_file)
           n == min_size(Len(idx), Len(md))
       IN /\ loaded' = [index |-> idx, metadata |-> md]
          /\ IF Len(idx) = Len(md)
             THEN /\ store' = "ready"
                  /\ index' = idx
                  /\ metadata' = md
             ELSE IF Len(idx) > n
             THEN \* _shrink_index builds the shorter index, then saves it
                  \E has_xb \in IndexFlatHasXb :
                     IF has_xb
                     THEN /\ store' = "repair_index_open"
                          /\ index' = shrink_index(idx, n)
                          /\ metadata' = md
                     ELSE /\ store' = "failed"
                          /\ index' = index
                          /\ metadata' = metadata
             ELSE /\ store' = "repair_metadata_open"
                  /\ index' = idx
                  /\ metadata' = Prefix(md, n)
    /\ UNCHANGED <<chunking, dumped, index_file, metadata_file, pc, args, call_no, outcome,
                   calls, acked, observed, results>>

\* __init__ over a file that does not parse: read_index or json.load raises.
ConstructFails ==
    /\ store = "down"
    /\ ~Loadable(index_file, metadata_file)
    /\ store' = "failed"
    /\ UNCHANGED <<chunking, dumped, index_file, metadata_file, index, metadata, loaded, pc,
                   args, call_no, outcome, calls, acked, observed, results>>

\* _shrink_index -> _save_index: write_index opens the file, emptying it.
RepairIndexOpen ==
    /\ store = "repair_index_open"
    /\ index_file' = TornFile
    /\ store' = "repair_index_write"
    /\ UNCHANGED <<chunking, dumped, metadata_file, index, metadata, loaded, pc, args, call_no,
                   outcome, calls, acked, observed, results>>

\* write_index completes; line 32 then cuts the metadata list.
RepairIndexWrite ==
    /\ store = "repair_index_write"
    /\ index_file' = write_index(index)
    /\ metadata' = Prefix(metadata, min_size(Len(loaded.index), Len(metadata)))
    /\ store' = "repair_metadata_open"
    /\ UNCHANGED <<chunking, dumped, metadata_file, index, loaded, pc, args, call_no, outcome,
                   calls, acked, observed, results>>

\* _save_metadata, line 62: open("w") empties the file.
RepairMetadataOpen ==
    /\ store = "repair_metadata_open"
    /\ metadata_file' = EmptiedFile
    /\ store' = "repair_metadata_write"
    /\ UNCHANGED <<chunking, dumped, index_file, index, metadata, loaded, pc, args, call_no,
                   outcome, calls, acked, observed, results>>

\* _save_metadata, line 63: json.dump and close; the constructor returns.
\* No other thread has the store yet, and a process that stops before the
\* close leaves a file that does not parse, as the open did.
RepairMetadataWrite ==
    /\ store = "repair_metadata_write"
    /\ metadata_file' = WholeFile(json_dump(metadata))
    /\ store' = "ready"
    /\ UNCHANGED <<chunking, dumped, index_file, index, metadata, loaded, pc, args, call_no,
                   outcome, calls, acked, observed, results>>

\* A save of the repair raises OSError (mkdir, the open or a write of either
\* file, or the close of the metadata file): nothing catches it in
\* __init__, and no store is constructed. The index file stays as the open
\* left it; of the text of the metadata file any number of bytes may have
\* reached the file.
RepairFails ==
    /\ store \in {"repair_index_open", "repair_index_write",
                  "repair_metadata_open", "repair_metadata_write"}
    /\ IF store = "repair_metadata_write"
       THEN \E n \in PartialWrites(text_size(json_dump(metadata))) :
               metadata_file' = raw_write(metadata_file, json_dump(metadata), TRUE, 0, n)
       ELSE metadata_file' = metadata_file
    /\ store' = "failed"
    /\ index' = <<>>
    /\ metadata' = <<>>
    /\ UNCHANGED <<chunking, dumped, index_file, loaded, pc, args, call_no, outcome,
                   calls, acked, observed, results>>

\* The store is constructed and no add_documents call is running.
AtRest == store = "ready" /\ \A t \in Threads : pc[t] = "idle"

\* The process stops (at any point while it runs, or after a failed start):
\* memory is lost, the files stay as they are.
Crash ==
    /\ store # "down"
    /\ store' = "down"
    /\ index' = <<>>
    /\ metadata' = <<>>
    /\ loaded' = NotLoaded
    /\ pc' = Idle
    /\ args' = [t \in Threads |-> NoArgs]
    /\ call_no' = [t \in Threads |-> 0]
    /\ outcome' = [t \in Threads |-> "none"]
    /\ dumped' = NothingDumped
    /\ UNCHANGED <<chunking, index_file, metadata_file, calls, acked, observed, results>>

(***************************************************************************)
(* add_documents.                                                          *)
(***************************************************************************)
check_arguments_no_count(embeddings, chunks) ==
    IF size(embeddings) = 0 \/ Len(chunks) = 0 THEN "noop"
    ELSE IF shape1(embeddings) # Dimension THEN "DimensionMismatch"
    ELSE "valid"

check_arguments_no_dimension(embeddings, chunks) ==
    IF size(embeddings) = 0 \/ Len(chunks) = 0 THEN "noop"
    ELSE IF shape0(embeddings) # Len(chunks) THEN "CountMismatch"
    ELSE "valid"

check_arguments_count_first(embeddings, chunks) ==
    IF shape0(embeddings) # Len(chunks) THEN "CountMismatch"
    ELSE IF size(embeddings) = 0 \/ Len(chunks) = 0 THEN "noop"
    ELSE IF shape1(embeddings) # Dimension THEN "DimensionMismatch"
    ELSE "valid"

\* Lines 66-71: what the call does before it touches the store.
check_arguments(embeddings, chunks) ==
    IF size(embeddings) = 0 \/ Len(chunks) = 0 THEN "noop"
    ELSE IF shape1(embeddings) # Dimension THEN "DimensionMismatch"
    ELSE IF shape0(embeddings) # Len(chunks) THEN "CountMismatch"
    ELSE "valid"

build_records_reversed(chunks, c) ==
    [j \in 1..Len(chunks) |->
        [content |-> chunks[Len(chunks) + 1 - j].content,
         metadata |-> chunks[Len(chunks) + 1 - j].metadata,
         src |-> <<c, Len(chunks) + 1 - j>>]]

\* Lines 73-79: one record per chunk. src tags the record with its call and
\* its place in the call.
build_records(chunks, c) ==
    [j \in 1..Len(chunks) |->
        [content |-> chunks[j].content,
         metadata |-> chunks[j].metadata,
         src |-> <<c, j>>]]

\* The rows as the index takes them, tagged like the records.
tagged_rows(embeddings, c) ==
    [j \in 1..shape0(embeddings) |-> [vec |-> embeddings.rows[j], src |-> <<c, j>>]]

\* self.index.add(embeddings)
index_add(xb, rows) == xb \o rows

metadata_extend_first(md, records) == md \o Prefix(records, 1)

\* self.metadata.extend(records)
metadata_extend(md, records) == md \o records

SourcesOf(c, n) == {<<c, j>> : j \in 1..n}

\* No search call yet. A search call keeps its locals in observed: at is the
\* line it stands at, ntotal what line 87 read, clamp_ntotal what line 90
\* read, k the clamped top_k, searched the rows line 91 searched, hits what
\* line 91 returned, lens what line 94 read for each hit so far.
NothingObserved ==
    [at |-> "idle", query |-> normalized_row(1), top_k |-> 0, ntotal |-> 0,
     clamp_ntotal |-> 0, k |-> 0, searched |-> 0, hits |-> <<>>,
     lens |-> <<>>, raised |-> FALSE]

\* No search call is between its first and its last line.
NoSearchRunning == observed.at \in {"idle", "done"}

\* The call, with its chunks taken from chunk_lists: lines 66-79. A no-op or
\* a validation error ends it here.
AddDocumentsWith(t, chunk_lists) ==
    /\ store = "ready"
    /\ pc[t] = "idle"
    /\ calls < MaxCalls
    /\ \E embeddings \in Arrays(calls + 1), chunks \in chunk_lists :
          /\ args' = [args EXCEPT ![t] = [embeddings |-> embeddings, chunks |-> chunks]]
          /\ LET verdict == check_arguments(embeddings, chunks)
             IN IF verdict = "valid"
                THEN /\ pc' = [pc EXCEPT ![t] = "index_add"]
                     /\ outcome' = [outcome EXCEPT ![t] = "running"]
                ELSE /\ pc' = pc
                     /\ outcome' = [outcome EXCEPT ![t] = verdict]
    /\ calls' = calls + 1
    /\ call_no' = [call_no EXCEPT ![t] = calls + 1]
    /\ observed' = IF NoSearchRunning THEN NothingObserved ELSE observed
    /\ results' = IF NoSearchRunning THEN <<>> ELSE results
    /\ UNCHANGED <<chunking, dumped, index_file, metadata_file, store, index, metadata, loaded,
                   acked>>

\* A call with chunks as the ingest endpoint makes them.
AddDocuments(t) == AddDocumentsWith(t, ChunkLists)

\* A call of any caller, with any metadata json has a text for.
CallerAddDocuments(t) == AddDocumentsWith(t, CallerChunkLists)

\* A call of any caller that passes lines 66-71: its chunks may be long.
ConcurrentAddDocuments(t) ==
    /\ AddDocumentsWith(t, ChunkLists \cup LongChunkLists)
    /\ outcome'[t] = "running"

\* Line 81.
IndexAdd(t) ==
    /\ pc[t] = "index_add"
    /\ index' = index_add(index, tagged_rows(args[t].embeddings, call_no[t]))
    /\ pc' = [pc EXCEPT ![t] = "metadata_extend"]
    /\ UNCHANGED <<chunking, dumped, index_file, metadata_file, store, metadata, loaded, args,
                   call_no, outcome, calls, acked, observed, results>>

\* Line 82.
MetadataExtend(t) ==
    /\ pc[t] = "metadata_extend"
    /\ metadata' = metadata_extend(metadata, build_records(args[t].chunks, call_no[t]))
    /\ pc' = [pc EXCEPT ![t] = "save_index_open"]
    /\ UNCHANGED <<chunking, dumped, index_file, metadata_file, store, index, loaded, args,
                   call_no, outcome, calls, acked, observed, results>>

\* Line 83, _save_index: write_index opens the file, emptying it.
SaveIndexOpen(t) ==
    /\ pc[t] = "save_index_open"
    /\ index_file' = TornFile
    /\ pc' = [pc EXCEPT ![t] = "save_index_write"]
    /\ UNCHANGED <<chunking, dumped, metadata_file, store, index, metadata, loaded, args,
                   call_no, outcome, calls, acked, observed, results>>

\* Line 83, _save_index: write_index writes the index as it is now.
SaveIndexWrite(t) ==
    /\ pc[t] = "save_index_write"
    /\ index_file' = write_index(index)
    /\ pc' = [pc EXCEPT ![t] = "save_metadata_open"]
    /\ UNCHANGED <<chunking, dumped, metadata_file, store, index, metadata, loaded, args,
                   call_no, outcome, calls, acked, observed, results>>

\* Line 84, _save_metadata: open("w") empties the file.
SaveMetadataOpen(t) ==
    /\ pc[t] = "save_metadata_open"
    /\ metadata_file' = EmptiedFile
    /\ dumped' = [dumped EXCEPT ![t] = NoWriter]
    /\ pc' = [pc EXCEPT ![t] = "save_metadata_dump"]
    /\ UNCHANGED <<chunking, index_file, store, index, metadata, loaded,
                   args, call_no, outcome, calls, acked, observed, results>>

\* The file after a file object in the state w has written the first n bytes
\* of its write call that is due.
written_by(w, n) ==
    raw_write(metadata_file, json_dump(Prefix(metadata, w.records)), w.closed,
              w.written, w.written + n)

\* Line 84, _save_metadata, one step of json.dump. With a write call on the
\* file due, the step is that call. Otherwise it is one turn of the loop
\* over the list as it is now: the next record is written chunk by chunk to
\* the file object, or, the list having no further record, the closing
\* bracket is, and json.dump returns; the write calls this makes due are
\* steps of their own.
SaveMetadataDump(t) ==
    /\ pc[t] = "save_metadata_dump"
    /\ LET w == dumped[t]
           more == w.records < Len(metadata)
           n == IF more THEN w.records + 1 ELSE w.records
           tokens == IF more THEN record_tokens(json_dump(<<metadata[n]>>)[1])
                     ELSE IF n = 0 THEN <<2>> ELSE <<1, 1>>
       IN IF w.queue # <<>>
          THEN /\ metadata_file' = written_by(w, Head(w.queue))
               /\ dumped' = [dumped EXCEPT ![t] = after_write(w)]
               /\ pc' = pc
          ELSE /\ metadata_file' = metadata_file
               /\ dumped' = [dumped EXCEPT ![t] =
                                write_tokens([w EXCEPT !.records = n, !.closed = ~more],
                                             tokens)]
               /\ pc' = [pc EXCEPT ![t] = IF more THEN "save_metadata_dump"
                                          ELSE "save_metadata_write"]
    /\ UNCHANGED <<chunking, index_file, store, index, metadata,
                   loaded, args, call_no, outcome, calls, acked, observed, results>>

\* Line 84, _save_metadata: leaving the with block closes the file object,
\* which passes on what its buffers still hold and makes the write calls
\* that are due, one a step.
SaveMetadataWrite(t) ==
    /\ pc[t] = "save_metadata_write"
    /\ LET w == close_writer(dumped[t])
       IN IF w.queue = <<>>
          THEN /\ metadata_file' = metadata_file
               /\ dumped' = [dumped EXCEPT ![t] = w]
               /\ pc' = [pc EXCEPT ![t] = "add_documents_return"]
          ELSE /\ metadata_file' = written_by(w, Head(w.queue))
               /\ dumped' = [dumped EXCEPT ![t] = after_write(w)]
               /\ pc' = [pc EXCEPT ![t] = IF Len(w.queue) = 1
                                          THEN "add_documents_return"
                                          ELSE "save_metadata_write"]
    /\ UNCHANGED <<chunking, index_file, store, index, metadata, loaded, args,
                   call_no, outcome, calls, acked, observed, results>>

\* Line 84: _save_metadata has returned, add_documents returns, which
\* acknowledges its batch to the caller.
AddDocumentsReturn(t) ==
    /\ pc[t] = "add_documents_return"
    /\ dumped' = [dumped EXCEPT ![t] = NoWriter]
    /\ pc' = [pc EXCEPT ![t] = "idle"]
    /\ outcome' = [outcome EXCEPT ![t] = "returned"]
    /\ acked' = acked \cup SourcesOf(call_no[t], Len(args[t].chunks))
    /\ UNCHANGED <<chunking, index_file, metadata_file, store, index, metadata,
                   loaded, args, call_no, calls, observed, results>>

after_failed_save_rolled_back(entries, n) == Prefix(entries, Len(entries) - n)

\* Lines 81-84 have no try/except: when a save raises, the n entries that
\* lines 81-82 appended stay in the in-memory sequence.
after_failed_save(entries, n) == entries

\* A step of a save raises OSError: mkdir, the open or a write of the index
\* file, the open of the metadata file, a write call on it that is due, or
\* its close. The call ends with the error and memory keeps the batch. Of
\* the bytes of the write call that failed any number may be in the file
\* when the call ends: all of them when the close, which writes again what
\* the BufferedWriter holds, did not fail as the write before it had.
SaveFails(t) ==
    /\ \/ pc[t] \in {"save_index_open", "save_index_write",
                      "save_metadata_open", "save_metadata_write"}
       \/ pc[t] = "save_metadata_dump" /\ dumped[t].queue # <<>>
    /\ LET w == IF pc[t] = "save_metadata_write" THEN close_writer(dumped[t])
                ELSE dumped[t]
           due == IF pc[t] \in {"save_metadata_dump", "save_metadata_write"}
                     /\ w.queue # <<>>
                  THEN Head(w.queue) ELSE 0
       IN \E n \in PartialWrites(due) : metadata_file' = written_by(w, n)
    /\ pc' = [pc EXCEPT ![t] = "idle"]
    /\ outcome' = [outcome EXCEPT ![t] = "PersistenceFailure"]
    /\ index' = after_failed_save(index, Len(args[t].chunks))
    /\ metadata' = after_failed_save(metadata, Len(args[t].chunks))
    /\ dumped' = [dumped EXCEPT ![t] = NoWriter]
    /\ UNCHANGED <<chunking, index_file, store, loaded,
                   args, call_no, calls, acked, observed, results>>

(***************************************************************************)
(* search.                                                                 *)
(***************************************************************************)
RECURSIVE dot(_, _, _)
\* The inner product of the first k components.
dot(q, v, k) == IF k = 0 THEN 0 ELSE dot(q, v, k - 1) + q[k] * v[k]

\* The hit IndexFlatIP.search reports for position p (counted from 0).
hit_at(xb, q, p) == [score |-> dot(q, xb[p + 1].vec, Dimension), idx |-> p]

\* The positions among ps whose vector scores best with q.
best(xb, q, ps) ==
    {p \in ps : \A r \in ps : hit_at(xb, q, r).score <= hit_at(xb, q, p).score}

RECURSIVE ranked(_, _, _, _)
\* The ways to list k of the positions ps best first. The library orders the
\* hits by descending inner product; search does not sort them, and the
\* library names no order for equal scores, so they come in any order.
ranked(xb, q, ps, k) ==
    IF k = 0 \/ ps = {} THEN {<<>>}
    ELSE UNION {{<<hit_at(xb, q, p)>> \o rest : rest \in ranked(xb, q, ps \ {p}, k - 1)}
                   : p \in best(xb, q, ps)}

\* IndexFlatIP.search: the lists of the k best positions by inner product
\* that the call may return.
index_search(xb, q, k) == ranked(xb, q, 0..(Len(xb) - 1), k)

clamp_top_k_no_floor(top_k, ntotal) == Min(top_k, ntotal)

\* Line 90: top_k = max(1, min(top_k, self.index.ntotal)).
clamp_top_k(top_k, ntotal) == Max(1, Min(top_k, ntotal))

\* Line 91: what self.index.search may return for the clamped top_k.
index_hits(xb, query_embedding, top_k) ==
    IF Len(xb) = 0 THEN {<<>>}
    ELSE index_search(xb, query_embedding, clamp_top_k(top_k, Len(xb)))

kept_hits_unguarded(hits, md) == hits

\* Lines 93-95: the hits the loop goes on with; a hit without a position
\* (-1) or with a position at or beyond the metadata list is skipped.
kept_hits(hits, md) ==
    SelectSeq(hits, LAMBDA h : ~(h.idx = -1 \/ h.idx >= Len(md)))

\* Line 96 raises IndexError when a hit the loop goes on with has no record.
search_raises(hits, md) ==
    \E i \in 1..Len(hits) : hits[i].idx >= Len(md) /\ kept_hits(<<hits[i]>>, md) # <<>>

scored_record_off_by_one(md, hit) ==
    LET p == IF hit.idx + 2 <= Len(md) THEN hit.idx + 2 ELSE 1
    IN [content |-> md[p].content, metadata |-> md[p].metadata,
        src |-> md[p].src, score |-> hit.score]

\* Lines 96-97: a copy of the record at the hit's position, with the score.
scored_record(md, hit) ==
    [content |-> md[hit.idx + 1].content,
     metadata |-> md[hit.idx + 1].metadata,
     src |-> md[hit.idx + 1].src,
     score |-> hit.score]

\* Line 98: results.append(record).
append_result(rs, record) == Append(rs, record)

RECURSIVE search_results(_, _)
\* Lines 92-99: the list built from the hits kept, in the order the index
\* gave them.
search_results(md, kept) ==
    IF kept = <<>> THEN <<>>
    ELSE append_result(search_results(md, Prefix(kept, Len(kept) - 1)),
                       scored_record(md, kept[Len(kept)]))

\* Lines 87-99 run against one state of the store: the lists search may
\* return.
search(xb, md, query_embedding, top_k) ==
    {search_results(md, kept_hits(hits, md))
        : hits \in index_hits(xb, query_embedding, top_k)}

stored_after_search_in_place(md, hits) ==
    [p \in 1..Len(md) |->
        IF \E i \in 1..Len(hits) : hits[i].idx + 1 = p
        THEN [content |-> md[p].content, metadata |-> md[p].metadata,
              src |-> md[p].src, score |-> 1]
        ELSE md[p]]

\* self.metadata after the loop of lines 93-98: line 96 copies the record
\* (dict(...)) before line 97 writes the score, so the list is as before.
stored_after_search(md, hits) == md

TopKs == {-1, 0, 1, MaxBatch + 1}

\* A search call on a request thread of its own; it takes no lock, so the
\* add_documents calls take their steps between its reads of the store.
\* Lines 86-88: the call begins, reads self.index.ntotal, and returns the
\* empty list when that is 0.
SearchWith(top_ks) ==
    /\ store = "ready"
    /\ NoSearchRunning
    /\ \E query_embedding \in Queries, top_k \in top_ks :
          observed' = [NothingObserved EXCEPT
                          !.query = query_embedding,
                          !.top_k = top_k,
                          !.ntotal = Len(index),
                          !.at = IF Len(index) = 0 THEN "done" ELSE "clamp"]
    /\ results' = <<>>
    /\ UNCHANGED <<chunking, dumped, index_file, metadata_file, store, index, metadata,
                   loaded, pc, args, call_no, outcome, calls, acked>>

\* Line 90: top_k is clamped against self.index.ntotal as it is now.
SearchClamp ==
    /\ observed.at = "clamp"
    /\ observed' = [observed EXCEPT
                       !.clamp_ntotal = Len(index),
                       !.k = clamp_top_k(observed.top_k, Len(index)),
                       !.at = "index_search"]
    /\ UNCHANGED <<chunking, dumped, index_file, metadata_file, store, index, metadata,
                   loaded, pc, args, call_no, outcome, calls, acked, results>>

\* Lines 91-92: self.index.search over the rows the index has now.
SearchIndex ==
    /\ observed.at = "index_search"
    /\ \E hits \in index_search(index, observed.query, observed.k) :
          observed' = [observed EXCEPT
                          !.searched = Len(index),
                          !.hits = hits,
                          !.at = IF hits = <<>> THEN "done" ELSE "loop"]
    /\ UNCHANGED <<chunking, dumped, index_file, metadata_file, store, index, metadata,
                   loaded, pc, args, call_no, outcome, calls, acked, results>>

\* Lines 93-99, one pass of the loop: the next hit is tested against
\* len(self.metadata) as it is now, and its record is copied, scored and
\* appended. After the last hit the call returns the list.
SearchLoop ==
    /\ observed.at = "loop"
    /\ LET i == Len(observed.lens) + 1
           hit == observed.hits[i]
           kept == kept_hits(<<hit>>, metadata)
           raises == search_raises(<<hit>>, metadata)
       IN /\ results' = IF raises THEN <<>>
                        ELSE IF kept = <<>> THEN results
                        ELSE append_result(results, scored_record(metadata, hit))
          /\ metadata' = IF raises THEN metadata
                         ELSE stored_after_search(metadata, kept)
          /\ observed' = [observed EXCEPT
                             !.lens = Append(@, Len(metadata)),
                             !.raised = raises,
                             !.at = IF raises \/ i = Len(observed.hits)
                                    THEN "done" ELSE "loop"]
    /\ UNCHANGED <<chunking, dumped, index_file, metadata_file, store, index, loaded,
                   pc, args, call_no, outcome, calls, acked>>

\* POST /search with any top_k.
Search == SearchWith(TopKs)

(***************************************************************************)
(* chunk_text. A text is a sequence of characters.                         *)
(***************************************************************************)
\* config.CHUNK_SIZE and config.CHUNK_OVERLAP.
CHUNK_SIZE == 500
CHUNK_OVERLAP == 100

\* The characters str.strip() removes, of the ones the texts are made of.
Whitespace == {" ", "\r"}

Characters == {"a", "b", " ", "\r"}

Texts == UNION {[1..n -> Characters] : n \in 0..MaxText}

\* The chunk_size and chunk_overlap arguments; 0 also stands for None, which
\* lines 81-82 treat alike.
ChunkSizes == 0..MaxChunkSize
ChunkOverlaps == -1..MaxChunkSize

\* text.replace("\r", " ")
replace_cr(text) ==
    [i \in 1..Len(text) |-> IF text[i] = "\r" THEN " " ELSE text[i]]

\* How many characters str.strip() removes at the front and at the back.
leading(s) ==
    Cardinality({i \in 1..Len(s) : \A j \in 1..i : s[j] \in Whitespace})

trailing(s) ==
    Cardinality({i \in 1..Len(s) : \A j \in i..Len(s) : s[j] \in Whitespace})

\* s.strip()
strip(s) ==
    IF leading(s) = Len(s) THEN <<>>
    ELSE SubSeq(s, leading(s) + 1, Len(s) - trailing(s))

\* s[a:b], for 0 <= a and b <= len(s).
slice(s, a, b) == SubSeq(s, a + 1, b)

window_end_last_excluded(start, sz, text_length) ==
    Min(start + sz, text_length) - 1

\* Line 94: end = min(start + size, text_length).
window_end(start, sz, text_length) == Min(start + sz, text_length)

\* Lines 94-95: the chunk of the window that starts at start, and where in
\* clean_text it starts and ends.
window(clean_text, sz, start) ==
    LET end == window_end(start, sz, Len(clean_text))
        raw == slice(clean_text, start, end)
    IN [chunk |-> strip(raw),
        start |-> start + leading(raw),
        end |-> IF strip(raw) = <<>> THEN start + leading(raw)
                ELSE end - trailing(raw)]

RECURSIVE windows(_, _, _, _)
\* Lines 93-98: the loop, from start on; a window that strips to nothing
\* appends nothing.
windows(clean_text, sz, overlap, start) ==
    IF start < Len(clean_text)
    THEN LET w == window(clean_text, sz, start)
         IN (IF w.chunk # <<>> THEN <<w>> ELSE <<>>)
                \o windows(clean_text, sz, overlap, start + sz - overlap)
    ELSE <<>>

\* Lines 81-82: size = chunk_size or config.CHUNK_SIZE, and the same for the
\* overlap.
size_or_default(chunk_size) == IF chunk_size # 0 THEN chunk_size ELSE CHUNK_SIZE
overlap_or_default(chunk_overlap) ==
    IF chunk_overlap # 0 THEN chunk_overlap ELSE CHUNK_OVERLAP

\* Lines 78-99 without the chunks' texts: what the call appends, with the
\* place of each chunk in clean_text; <<>> when it appends nothing.
appended(text, chunk_size, chunk_overlap) ==
    LET sz == size_or_default(chunk_size)
        overlap == overlap_or_default(chunk_overlap)
        clean_text == strip(replace_cr(text))
    IN IF text = <<>> \/ sz <= overlap \/ clean_text = <<>> THEN <<>>
       ELSE windows(clean_text, sz, overlap, 0)

\* Lines 78-99: chunk_text raises ValueError or returns a list of chunks.
chunk_text(text, chunk_size, chunk_overlap) ==
    LET sz == size_or_default(chunk_size)
        overlap == overlap_or_default(chunk_overlap)
        ws == appended(text, chunk_size, chunk_overlap)
    IN IF text = <<>> THEN [raised |-> FALSE, chunks |-> <<>>]
       ELSE IF sz <= overlap THEN [raised |-> TRUE, chunks |-> <<>>]
       ELSE [raised |-> FALSE, chunks |-> [i \in 1..Len(ws) |-> ws[i].chunk]]

NotChunking ==
    [text |-> <<>>, chunk_size |-> 0, chunk_overlap |-> 0,
     status |-> "none", chunks |-> <<>>]

\* One call of chunk_text, from its arguments to its end.
ChunkText ==
    /\ chunking.status = "called"
    /\ LET r == chunk_text(chunking.text, chunking.chunk_size, chunking.chunk_overlap)
       IN chunking' = [chunking EXCEPT
                          !.status = IF r.raised THEN "ValueError" ELSE "returned",
                          !.chunks = r.chunks]
    /\ UNCHANGED <<dumped, index_file, metadata_file, store, index, metadata, loaded,
                   pc, args, call_no, outcome, calls, acked, observed, results>>

(***************************************************************************)
(* The initial artifacts: each file absent, or left by earlier runs with   *)
(* up to MaxSeed entries (call 0); entry p of either file is pair p.       *)
(***************************************************************************)
SeedVectors == [p \in 1..MaxSeed |-> [vec |-> normalized_row(p + 1), src |-> <<0, p>>]]

SeedRecords == [p \in 1..MaxSeed |->
                   [content |-> Chunk(p).content,
                    metadata |-> Chunk(p).metadata,
                    src |-> <<0, p>>]]

StoreInit ==
    /\ index_file \in {AbsentFile} \cup
                      {write_index(Prefix(SeedVectors, n)) : n \in 0..MaxSeed}
    /\ metadata_file \in {AbsentFile} \cup
                      {WholeFile(json_dump(Prefix(SeedRecords, n))) : n \in 0..MaxSeed}
    /\ store = "down"
    /\ index = <<>>
    /\ metadata = <<>>
    /\ loaded = NotLoaded
    /\ pc = Idle
    /\ args = [t \in Threads |-> NoArgs]
    /\ call_no = [t \in Threads |-> 0]
    /\ outcome = [t \in Threads |-> "none"]
    /\ calls = 0
    /\ acked = {}
    /\ observed = NothingObserved
    /\ results = <<>>
    /\ dumped = NothingDumped

Init == StoreInit /\ chunking = NotChunking

Next ==
    \/ Construct
    \/ ConstructFails
    \/ RepairIndexOpen
    \/ RepairIndexWrite
    \/ RepairMetadataOpen
    \/ RepairMetadataWrite
    \/ RepairFails
    \/ Crash
    \/ \E t \in Sequential : AddDocuments(t)
    \/ \E t \in Sequential : IndexAdd(t)
    \/ \E t \in Sequential : MetadataExtend(t)
    \/ \E t \in Sequential : SaveIndexOpen(t)
    \/ \E t \in Sequential : SaveIndexWrite(t)
    \/ \E t \in Sequential : SaveMetadataOpen(t)
    \/ \E t \in Sequential : SaveMetadataDump(t)
    \/ \E t \in Sequential : SaveMetadataWrite(t)
    \/ \E t \in Sequential : AddDocumentsReturn(t)
    \/ \E t \in Sequential : SaveFails(t)

Spec == Init /\ [][Next]_vars

(***************************************************************************)
(* Concurrent requests: the endpoints are plain functions, which the web   *)
(* framework runs on worker threads, and the store takes no lock; any      *)
(* thread may take its next step at any time.                              *)
(***************************************************************************)
\* The runs start at the first start of the service (no artifact yet), and
\* the process stays up: crashes and repair are the subject of Spec. The
\* requests are add_documents calls that store pairs, with chunks of any
\* length; a search beside a writer is the subject of SearchSpec.
ConcurrentInit ==
    /\ Init
    /\ index_file = AbsentFile
    /\ metadata_file = AbsentFile

ConcurrentNext ==
    \/ Construct
    \/ \E t \in Threads : ConcurrentAddDocuments(t)
    \/ \E t \in Threads : IndexAdd(t)
    \/ \E t \in Threads : MetadataExtend(t)
    \/ \E t \in Threads : SaveIndexOpen(t)
    \/ \E t \in Threads : SaveIndexWrite(t)
    \/ \E t \in Threads : SaveMetadataOpen(t)
    \/ \E t \in Threads : SaveMetadataDump(t)
    \/ \E t \in Threads : SaveMetadataWrite(t)
    \/ \E t \in Threads : AddDocumentsReturn(t)

ConcurrentSpec == ConcurrentInit /\ [][ConcurrentNext]_vars

(***************************************************************************)
(* Queries beside one writer: add_documents calls come one at a time, and  *)
(* a search may run at any point of them. The runs start from artifacts of *)
(* equal length, the process stays up, and the calls, MaxQueriedCalls at   *)
(* most, are the ones that store pairs (a rejected call and a no-op leave  *)
(* the store as it was).                                                   *)
(***************************************************************************)
\* Thread t makes an add_documents call whose arguments pass lines 66-71.
StoringCall(t) ==
    /\ calls < MaxQueriedCalls
    /\ AddDocuments(t)
    /\ outcome'[t] = "running"

SearchInit ==
    /\ Init
    /\ index_file.kind = "whole"
    /\ metadata_file.kind = "whole"
    /\ Len(read_index(index_file)) = Len(metadata_file.data)

SearchNext ==
    \/ Construct
    \/ \E t \in Sequential : StoringCall(t)
    \/ \E t \in Sequential : IndexAdd(t)
    \/ \E t \in Sequential : MetadataExtend(t)
    \/ \E t \in Sequential : SaveIndexOpen(t)
    \/ \E t \in Sequential : SaveIndexWrite(t)
    \/ \E t \in Sequential : SaveMetadataOpen(t)
    \/ \E t \in Sequential : SaveMetadataDump(t)
    \/ \E t \in Sequential : SaveMetadataWrite(t)
    \/ \E t \in Sequential : AddDocumentsReturn(t)
    \/ Search
    \/ SearchClamp
    \/ SearchIndex
    \/ SearchLoop

SearchSpec == SearchInit /\ [][SearchNext]_vars

(***************************************************************************)
(* Writing and reloading: from the first start of the service, calls of    *)
(* any caller come one at a time and nothing fails; the process may stop   *)
(* between two calls and start again from the files the calls wrote.       *)
(***************************************************************************)
\* The process ends while no call is running.
Stop == AtRest /\ Crash

RoundTripNext ==
    \/ Construct
    \/ Stop
    \/ \E t \in Sequential : CallerAddDocuments(t)
    \/ \E t \in Sequential : IndexAdd(t)
    \/ \E t \in Sequential : MetadataExtend(t)
    \/ \E t \in Sequential : SaveIndexOpen(t)
    \/ \E t \in Sequential : SaveIndexWrite(t)
    \/ \E t \in Sequential : SaveMetadataOpen(t)
    \/ \E t \in Sequential : SaveMetadataDump(t)
    \/ \E t \in Sequential : SaveMetadataWrite(t)
    \/ \E t \in Sequential : AddDocumentsReturn(t)

RoundTripSpec == ConcurrentInit /\ [][RoundTripNext]_vars

(***************************************************************************)
(* One-at-a-time runs that start from consistent artifacts: the two files  *)
(* hold equally many entries (or are both missing).                        *)
(***************************************************************************)
ConsistentInit ==
    /\ Init
    /\ Len(load_index(index_file)) = Len(load_metadata(metadata_file))

ConsistentSpec == ConsistentInit /\ [][Next]_vars

(***************************************************************************)
(* Calls of chunk_text, each with a text and the two parameters; the store *)
(* is not involved.                                                        *)
(***************************************************************************)
ChunkInit ==
    /\ StoreInit
    /\ index_file = AbsentFile
    /\ metadata_file = AbsentFile
    /\ chunking \in {[text |-> text, chunk_size |-> chunk_size,
                      chunk_overlap |-> chunk_overlap,
                      status |-> "called", chunks |-> <<>>]
                        : text \in Texts, chunk_size \in ChunkSizes,
                          chunk_overlap \in ChunkOverlaps}

ChunkNext == ChunkText

ChunkSpec == ChunkInit /\ [][ChunkNext]_vars

(***************************************************************************)
(* Properties.                                                             *)
(***************************************************************************)
\* Thread t makes an add_documents call in this step.
CallBy(t) == call_no'[t] > call_no[t]

\* The number of entries a file holds for a reader.
Count(file) == IF file.kind = "whole" THEN Len(file.data) ELSE 0

\* The number of vectors the index file holds for a reader.
IndexCount(file) == IF file.kind = "whole" THEN file.data.ntotal ELSE 0

\* Every position both sequences have holds the two halves of one pair.
Aligned(xb, md) ==
    \A p \in 1..Min(Len(xb), Len(md)) : xb[p].src = md[p].src

StoreUnchanged == UNCHANGED <<index, metadata, index_file, metadata_file>>

\* C1: once the constructor or an add_documents call of a one-at-a-time run
\* has finished (returned or raised), index.ntotal equals len(metadata).
C1_CountsEqualAtRest == AtRest => Len(index) = Len(metadata)

\* C1 witness: a store built by repair, holding an acknowledged batch, whose
\* latest call was rejected for its counts.
C1_Witness ==
    /\ AtRest
    /\ Len(loaded.index) # Len(loaded.metadata)
    /\ acked # {}
    /\ outcome[1] = "CountMismatch"
    /\ Len(index) >= 2

\* C2: a constructor given files that load does not raise, and when the
\* loaded counts i and m differ it ends with both in-memory sequences equal
\* to their first min(i, m) loaded entries, the metadata file rewritten with
\* the cut list, the index file rewritten with the cut index when the index
\* was the longer side, and both files holding min(i, m) entries.
C2_RepairTruncatesBoth ==
    [][/\ (store = "down" /\ store' = "failed")
          => ~Loadable(index_file, metadata_file)
       /\ (store # "ready" /\ store' = "ready"
           /\ Len(loaded'.index) # Len(loaded'.metadata))
          => LET n == Min(Len(loaded'.index), Len(loaded'.metadata))
             IN /\ index' = Prefix(loaded'.index, n)
                /\ metadata' = Prefix(loaded'.metadata, n)
                /\ metadata_file' = WholeFile(json_dump(metadata'))
                /\ (Len(loaded'.index) > n => index_file' = write_index(index'))
                /\ IndexCount(index_file') = n
                /\ Count(metadata_file') = n]_vars

\* What holds of the repair: a constructor that returns has done it, on
\* whichever side was the longer.
RepairDoneOnReturn ==
    [][(store # "ready" /\ store' = "ready"
        /\ Len(loaded'.index) # Len(loaded'.metadata))
       => LET n == Min(Len(loaded'.index), Len(loaded'.metadata))
          IN /\ index' = Prefix(loaded'.index, n)
             /\ metadata' = Prefix(loaded'.metadata, n)
             /\ metadata_file' = WholeFile(json_dump(metadata'))
             /\ (Len(loaded'.index) > n => index_file' = write_index(index'))
             /\ IndexCount(index_file') = n
             /\ Count(metadata_file') = n]_vars

\* With the metadata as the longer side the constructor reads no xb: from
\* files that load it raises nothing before its save.
MetadataLongerNeverRaises ==
    [][(store = "down" /\ store' = "failed" /\ Loadable(index_file, metadata_file))
       => Len(load_index(index_file)) > Len(load_metadata(metadata_file))]_vars

\* What a constructor run over the files as they are now would hold.
Reloadable == Loadable(index_file, metadata_file)
ReloadedCount == Min(Len(load_index(index_file)), Len(load_metadata(metadata_file)))

\* C3: at every point (so wherever the process stops), constructing the
\* store again from the files gives a store that holds every pair of every
\* acknowledged batch, vector and record at one position, in call order.
C3_AckedSurviveCrash ==
    \A s \in acked :
       /\ Reloadable
       /\ \E p \in 1..ReloadedCount :
              /\ load_index(index_file)[p].src = s
              /\ load_metadata(metadata_file)[p].src = s
              /\ \A q \in 1..(p - 1) :
                    load_index(index_file)[q].src \in acked
                    => \/ load_index(index_file)[q].src[1] < s[1]
                       \/ /\ load_index(index_file)[q].src[1] = s[1]
                          /\ load_index(index_file)[q].src[2] < s[2]

\* The same wherever the files are whole: what is left of C3 when no write
\* is cut short.
AckedSurviveWholeFiles == Reloadable => C3_AckedSurviveCrash

\* C4: in one-at-a-time runs with crashes and reloads, every position holds
\* the vector and the record of one pair of one call, and each step leaves
\* the stored entries where they are: a running store only appends, the
\* constructor only keeps a prefix of what it loaded.
C4_PairsStayAligned ==
    [][/\ Aligned(index', metadata')
       /\ (store = "ready" /\ store' = "ready")
          => IsPrefix(index, index') /\ IsPrefix(metadata, metadata')
       /\ (store = "down" /\ store' \notin {"down", "failed"})
          => /\ IsPrefix(index', load_index(index_file))
             /\ IsPrefix(metadata', load_metadata(metadata_file))
       /\ (store \notin {"down", "failed", "ready"} /\ store' # "down")
          => IsPrefix(index', index) /\ IsPrefix(metadata', metadata)]_vars

\* C4 witness: a store reloaded with repair after a crash that left a batch
\* of call 1 in the index file only, now also holding a batch of call 2.
C4_Witness ==
    /\ AtRest
    /\ Len(loaded.index) > Len(loaded.metadata)
    /\ \E p \in 1..Len(loaded.index) : loaded.index[p].src[1] = 1
    /\ \E p \in 1..Len(index) : index[p].src[1] = 2
    /\ outcome[1] = "returned"

\* C5: after concurrent add_documents calls have all finished, the counts
\* are equal and every position pairs a vector with the record of its own
\* chunk (as a lock around the four steps would ensure).
C5_ConcurrentAddsSerialized ==
    AtRest => Len(index) = Len(metadata) /\ Aligned(index, metadata)

\* C6: no search sees the index ahead of the metadata: the count of rows
\* the index had when the search searched it (line 91) is never greater than
\* a count of records the search then reads (line 94).
C6_SearchNeverSeesDrift ==
    \A i \in 1..Len(observed.lens) : observed.searched <= observed.lens[i]

\* C7 as claimed: every call whose number of vectors differs from its number
\* of chunks fails with CountMismatch and leaves the store unchanged.
C7_AnyCountMismatchFails ==
    [][\A t \in Threads :
          (CallBy(t) /\ shape0(args'[t].embeddings) # Len(args'[t].chunks))
          => outcome'[t] = "CountMismatch" /\ StoreUnchanged]_vars

\* C7 amended: a call whose counts differ leaves the store unchanged; it
\* fails with CountMismatch when it has at least one vector and one chunk and
\* its vectors have the store's dimension.
C7_CountMismatchFails ==
    [][\A t \in Threads :
          (CallBy(t) /\ shape0(args'[t].embeddings) # Len(args'[t].chunks))
          => /\ StoreUnchanged
             /\ pc'[t] = "idle"
             /\ (size(args'[t].embeddings) # 0 /\ Len(args'[t].chunks) # 0
                 /\ shape1(args'[t].embeddings) = Dimension)
                => outcome'[t] = "CountMismatch"]_vars

\* C7 witness: a call with two vectors of the right dimension and one chunk
\* was rejected for its counts by a store that holds entries.
C7_Witness ==
    /\ AtRest
    /\ outcome[1] = "CountMismatch"
    /\ shape0(args[1].embeddings) = 2
    /\ Len(args[1].chunks) = 1
    /\ Len(index) >= 1

\* C8 as claimed: every call whose vectors (at least one) have another
\* length than the store's dimension fails with DimensionMismatch, the store
\* unchanged.
C8_AnyWrongDimensionFails ==
    [][\A t \in Threads :
          (CallBy(t) /\ shape0(args'[t].embeddings) > 0
           /\ shape1(args'[t].embeddings) # Dimension)
          => outcome'[t] = "DimensionMismatch" /\ StoreUnchanged]_vars

\* C8 amended: a call whose vectors have another length than the store's
\* dimension leaves the store unchanged; it fails with DimensionMismatch
\* when it has at least one vector and at least one chunk.
C8_WrongDimensionFails ==
    [][\A t \in Threads :
          (CallBy(t) /\ shape1(args'[t].embeddings) # Dimension)
          => /\ StoreUnchanged
             /\ pc'[t] = "idle"
             /\ (size(args'[t].embeddings) # 0 /\ Len(args'[t].chunks) # 0)
                => outcome'[t] = "DimensionMismatch"]_vars

\* C8 witness: a call with vectors one component too long was rejected for
\* its dimension by a store that holds entries.
C8_Witness ==
    /\ AtRest
    /\ outcome[1] = "DimensionMismatch"
    /\ shape1(args[1].embeddings) = Dimension + 1
    /\ Len(index) >= 1

\* C9: a constructor run over a metadata file that does not parse (and an
\* index file that does) does not fail.
C9_MalformedMetadataLoadsAsEmpty ==
    [][(store = "down" /\ metadata_file.kind = "torn" /\ index_file.kind # "torn")
       => store' # "failed"]_vars

\* The files load, without repair, to the store as it is in memory.
RoundTrip ==
    /\ Reloadable
    /\ load_index(index_file) = index
    /\ load_metadata(metadata_file) = metadata
    /\ Len(load_index(index_file)) = Len(load_metadata(metadata_file))

\* An add_documents call returns after writing, or the constructor finishes.
StoreWritten ==
    \/ store # "ready" /\ store' = "ready"
    \/ \E t \in Threads : pc[t] = "add_documents_return" /\ outcome'[t] = "returned"

\* C10 as stated: when the constructor has finished, and whenever an
\* add_documents call of a one-at-a-time run returns, a store constructed
\* from the files would hold the same vectors and records (content and
\* metadata) at the same positions as this store, and would load equal
\* counts (no repair).
C10_RoundTrip == [][StoreWritten => RoundTrip']_vars

\* A metadata dict json gives back as it was: its keys are strs and its
\* values strs, ints, floats and lists of ints.
JsonFaithful(d) ==
    \A g \in DOMAIN d :
        g \notin DOMAIN IntKeyText /\ d[g].py \in {"str", "int", "float", "list"}

\* The metadata dict json.load gives for one that json.dump wrote: a tuple
\* has become a list, an int key the str of its digits.
AsJsonReads(d) ==
    [f \in {json_key(g) : g \in DOMAIN d} |->
        LET v == d[CHOOSE g \in DOMAIN d : json_key(g) = f]
        IN IF v.py = "tuple" THEN PyList(v.val) ELSE v]

\* C10 amended: when the constructor has finished, and whenever an
\* add_documents call of a one-at-a-time run returns, a store constructed
\* from the files would load equal counts (no repair), the count of this
\* store, and hold at every position the vector and the content of this
\* store; it would hold the metadata of this store where that has str keys
\* and str, int, float and list values, and elsewhere what json reads back
\* (a list for a tuple, a str for an int key).
C10_RoundTripThroughJson ==
    [][StoreWritten =>
          /\ Reloadable'
          /\ Len(load_index(index_file')) = Len(load_metadata(metadata_file'))
          /\ load_index(index_file') = index'
          /\ Len(load_metadata(metadata_file')) = Len(metadata')
          /\ \A p \in 1..Len(metadata') :
                LET read == load_metadata(metadata_file')[p]
                IN /\ read.content = metadata'[p].content
                   /\ read.src = metadata'[p].src
                   /\ DOMAIN read = DOMAIN metadata'[p]
                   /\ read.metadata = AsJsonReads(metadata'[p].metadata)
                   /\ JsonFaithful(metadata'[p].metadata)
                         => read.metadata = metadata'[p].metadata]_vars

\* C10 witness: the process stopped after two calls that stored pairs, one
\* of them with a list in its metadata, and the store constructed from the
\* files they wrote holds all that the stopped one held.
C10_Witness ==
    /\ AtRest
    /\ calls = 2
    /\ call_no[1] = 0
    /\ Cardinality(acked) >= 2
    /\ \E p \in 1..Len(metadata) : metadata[p].metadata = ListMetadata
    /\ \A s \in acked : \E p \in 1..Len(metadata) :
          metadata[p].src = s /\ index[p].src = s
    /\ \A p \in 1..Len(metadata) : JsonFaithful(metadata[p].metadata)
    /\ loaded = [index |-> index, metadata |-> metadata]
    /\ index_file = write_index(index)
    /\ metadata_file = WholeFile(json_dump(metadata))

(***************************************************************************)
(* Properties of search.                                                   *)
(***************************************************************************)
\* The position of the stored record a result was copied from.
PositionOf(r) == CHOOSE p \in 1..Len(metadata) : metadata[p].src = r.src

\* The best score any vector the search saw has with its query.
BestScore ==
    LET seen == {dot(observed.query, index[p].vec, Dimension)
                    : p \in 1..observed.ntotal}
    IN CHOOSE b \in seen : \A c \in seen : c <= b

\* The positions the search saw that hold its query vector.
QueryPositions ==
    {p \in 1..observed.ntotal : index[p].vec = observed.query}

\* The search has returned, and every read it made of the store saw the same
\* count > 0 of entries, in the index and in the metadata alike.
SawAligned ==
    /\ observed.at = "done"
    /\ observed.ntotal > 0
    /\ observed.clamp_ntotal = observed.ntotal
    /\ observed.searched = observed.ntotal
    /\ Len(observed.lens) = Len(observed.hits)
    /\ \A i \in 1..Len(observed.lens) : observed.lens[i] = observed.ntotal

\* C11: the sequence search returned is ordered by non-increasing score, and
\* of two neighbours with equal score the one copied from the lower position
\* comes first, for every query, every top_k and every store content.
C11_ResultsRanked ==
    \A i \in 1..(Len(results) - 1) :
        \/ results[i].score > results[i + 1].score
        \/ /\ results[i].score = results[i + 1].score
           /\ PositionOf(results[i]) < PositionOf(results[i + 1])

\* What holds of the order: the scores of the sequence search returned never
\* increase (the library's order by score, which the loop keeps).
ResultsByScore ==
    \A i \in 1..(Len(results) - 1) : results[i].score >= results[i + 1].score

\* C12 as stated: after valid pairs were stored, a search with top_k at least
\* their number whose query is the vector of a stored pair returns that
\* pair's content first, with the maximal score, for each such pair.
C12_EveryPairComesFirst ==
    (SawAligned /\ observed.top_k >= observed.ntotal)
        => \A p \in QueryPositions :
              /\ results # <<>>
              /\ results[1].content = metadata[p].content
              /\ results[1].score = BestScore

\* C12: after valid pairs were stored, a search with top_k at least their
\* number whose query is the vector of a stored pair returns first, with the
\* maximal score, the content of a stored pair that has this vector; it is
\* the content of the pair itself when no other position holds that vector.
C12_SomeEqualPairComesFirst ==
    (SawAligned /\ observed.top_k >= observed.ntotal /\ QueryPositions # {})
        => /\ results # <<>>
           /\ results[1].score = BestScore
           /\ \E p \in QueryPositions : results[1].content = metadata[p].content
           /\ \A p \in QueryPositions :
                 QueryPositions = {p} => results[1].src = metadata[p].src

\* C12 witness: the query is the vector of a pair a returned call added, at a
\* position that is not the first, and its content came first.
C12_Witness ==
    /\ SawAligned
    /\ observed.top_k >= observed.ntotal
    /\ \E p \in QueryPositions :
          /\ p > 1
          /\ QueryPositions = {p}
          /\ metadata[p].src \in acked
          /\ results # <<>>
          /\ results[1].src = metadata[p].src

\* C13: a search that saw no vectors returned the empty sequence without
\* error, for any top_k; a search that saw count > 0 aligned entries
\* returned exactly min(max(top_k, 1), count) results.
C13_ResultCount ==
    /\ (observed.at = "done" /\ observed.ntotal = 0)
          => results = <<>> /\ ~observed.raised
    /\ SawAligned
          => /\ ~observed.raised
             /\ Len(results) = Min(Max(observed.top_k, 1), observed.ntotal)

\* C13 witness: a search with a negative top_k on a store of at least two
\* aligned entries returned one result.
C13_Witness ==
    /\ SawAligned
    /\ observed.ntotal >= 2
    /\ observed.top_k < 0
    /\ Len(results) = 1

\* The hits the search has gone through whose position had a record when
\* line 94 tested it.
HitsWithRecord ==
    LET HasRecord(i) == observed.hits[i].idx < observed.lens[i]
        passed == SelectSeq([i \in 1..Len(observed.lens) |-> i], HasRecord)
    IN [j \in 1..Len(passed) |-> observed.hits[passed[j]]]

\* C19: search does not fail when the index is ahead of the metadata: the
\* hits at or beyond the metadata length are skipped, and the results are,
\* in order, the content and metadata of the records at the other hits'
\* positions.
C19_DriftIsSkipped ==
    /\ ~observed.raised
    /\ Len(results) = Len(HitsWithRecord)
    /\ \A i \in 1..Len(results) :
          /\ results[i].content = metadata[HitsWithRecord[i].idx + 1].content
          /\ results[i].metadata = metadata[HitsWithRecord[i].idx + 1].metadata

\* C19 witness: a search ran between the two appends of a call, the index
\* gave it a position without a record, and it returned the other hits.
C19_Witness ==
    /\ observed.at = "done"
    /\ \E i \in 1..Len(observed.lens) :
          /\ observed.searched > observed.lens[i]
          /\ observed.hits[i].idx >= observed.lens[i]
    /\ results # <<>>
    /\ Len(results) < Len(observed.hits)

\* A search call is made in this step.
SearchStep == observed' # observed \/ results' # results

NoScoreStored ==
    /\ \A p \in 1..Len(metadata) : "score" \notin DOMAIN metadata[p]
    /\ \A p \in 1..Len(metadata_file.data) :
          "score" \notin DOMAIN metadata_file.data[p]

\* C20: a search call, for any query and top_k, leaves the in-memory index,
\* the in-memory records and both files as they were, and no record in
\* memory or in the metadata file ever has a score field.
C20_SearchIsReadOnly ==
    [][/\ SearchStep => StoreUnchanged
       /\ NoScoreStored']_vars

\* C20 witness: a search that ran during a call returned every record of the
\* store with its score, those of the call included, and the call has then
\* written the store to the files.
C20_Witness ==
    /\ SawAligned
    /\ Len(results) = observed.ntotal
    /\ results[1].score = BestScore
    /\ \E i \in 1..Len(results) : results[i].src[1] = call_no[1]
    /\ AtRest
    /\ outcome[1] = "returned"
    /\ metadata_file = WholeFile(json_dump(metadata))
    /\ index_file = write_index(index)

(***************************************************************************)
(* Properties of add_documents, continued.                                 *)
(***************************************************************************)
\* C18: an add_documents call whose vectors are empty or whose chunks are
\* empty (one of the two is enough) returns without error, leaves the
\* in-memory index and metadata as they were and writes neither file.
C18_EmptyCallIsNoOp ==
    [][\A t \in Threads :
          (/\ CallBy(t)
           /\ \/ shape0(args'[t].embeddings) = 0
              \/ Len(args'[t].chunks) = 0)
             => /\ outcome'[t] = "noop"
                /\ pc'[t] = "idle"
                /\ StoreUnchanged]_vars

\* C18 witness: a store that holds an acknowledged batch has returned from a
\* call with no vectors and two chunks, and holds what it held.
C18_Witness ==
    /\ AtRest
    /\ outcome[1] = "noop"
    /\ shape0(args[1].embeddings) = 0
    /\ Len(args[1].chunks) = 2
    /\ acked # {}
    /\ Len(index) = Len(metadata)
    /\ index_file = write_index(index)
    /\ metadata_file = WholeFile(json_dump(metadata))

\* The entries the index file holds beyond the count of the metadata file.
IndexFileAhead == (Count(metadata_file) + 1)..IndexCount(index_file)

\* C17: a valid call appends to the index, appends to the metadata, writes
\* the index file and writes the metadata file, in this order; so, from
\* consistent artifacts, at every point (every crash point and after a
\* failed write included) the index file holds at least as many entries as
\* the metadata file, and what it holds beyond them are whole batches of
\* calls that were not acknowledged.
C17_IndexFileNeverBehind ==
    /\ IndexCount(index_file) >= Count(metadata_file)
    /\ \A p \in IndexFileAhead :
          /\ read_index(index_file)[p].src \notin acked
          /\ \A q \in 1..IndexCount(index_file) :
                read_index(index_file)[q].src[1] = read_index(index_file)[p].src[1]
                   => q \in IndexFileAhead

(***************************************************************************)
(* Properties of chunk_text.                                               *)
(***************************************************************************)
\* The latest chunk_text call has ended.
ChunkTextEnded == chunking.status \in {"returned", "ValueError"}

\* C14: chunk_text fails (ValueError) whenever its parameters violate
\* chunk_size > chunk_overlap >= 0, for any text, the empty and the
\* all-whitespace ones included, and returns no result then.
C14_BadParametersFail ==
    (/\ ChunkTextEnded
     /\ \/ chunking.chunk_size <= chunking.chunk_overlap
        \/ chunking.chunk_overlap < 0)
        => chunking.status = "ValueError"

\* The text of the latest call as the chunks are cut from it, and where the
\* returned chunks lie in it.
CleanText == strip(replace_cr(chunking.text))

Spans == appended(chunking.text, chunking.chunk_size, chunking.chunk_overlap)

\* Position p (from 0) of the clean text lies inside a returned chunk.
Covered(p) == \E i \in 1..Len(Spans) : Spans[i].start <= p /\ p < Spans[i].end

\* The characters of the text that returned chunks i and i + 1 share.
Shared(i) == Max(0, Spans[i].end - Spans[i + 1].start)

\* The returned chunks are the pieces of the clean text at the spans.
ChunksAtSpans ==
    /\ Len(chunking.chunks) = Len(Spans)
    /\ \A i \in 1..Len(Spans) :
          chunking.chunks[i] = slice(CleanText, Spans[i].start, Spans[i].end)

\* The call returned, for chunk_size > chunk_overlap > 0 and a non-empty text.
ReturnedWithOverlap ==
    /\ chunking.status = "returned"
    /\ chunking.chunk_size > chunking.chunk_overlap
    /\ chunking.chunk_overlap > 0
    /\ chunking.text # <<>>

\* C15 as stated: for chunk_size > chunk_overlap > 0 and a non-empty text,
\* every character of the trimmed text lies inside a returned chunk, and two
\* consecutive returned chunks share at most chunk_overlap characters.
C15_EveryCharacterCovered ==
    ReturnedWithOverlap
        => /\ ChunksAtSpans
           /\ \A p \in 0..(Len(CleanText) - 1) : Covered(p)
           /\ \A i \in 1..(Len(Spans) - 1) : Shared(i) <= chunking.chunk_overlap

\* C15: for chunk_size > chunk_overlap > 0 and a non-empty text, every
\* character of the trimmed text that is not whitespace lies inside a
\* returned chunk, and two consecutive returned chunks share at most
\* chunk_overlap characters.
C15_EveryInkCharacterCovered ==
    ReturnedWithOverlap
        => /\ ChunksAtSpans
           /\ \A p \in 0..(Len(CleanText) - 1) :
                 CleanText[p + 1] \notin Whitespace => Covered(p)
           /\ \A i \in 1..(Len(Spans) - 1) : Shared(i) <= chunking.chunk_overlap

\* C15 witness: a call returned several chunks, two consecutive ones share
\* chunk_overlap characters, and a whitespace character inside the text was
\* at the edge of every window that held it.
C15_Witness ==
    /\ ReturnedWithOverlap
    /\ Len(chunking.chunks) >= 2
    /\ \E i \in 1..(Len(Spans) - 1) : Shared(i) = chunking.chunk_overlap
    /\ \E p \in 0..(Len(CleanText) - 1) :
          CleanText[p + 1] \in Whitespace /\ ~Covered(p)

\* The result the specification describes: the text without its carriage
\* returns, trimmed; the windows [s, s + chunk_size) for s = 0, step,
\* 2 * step, ... below the length, step = chunk_size - chunk_overlap; each
\* window trimmed, the empty ones dropped.
reference_chunks(text, chunk_size, chunk_overlap) ==
    LET normalized == strip(SelectSeq(text, LAMBDA c : c # "\r"))
        step == chunk_size - chunk_overlap
        count == Cardinality({k \in 0..Len(normalized) : k * step < Len(normalized)})
        trimmed == [k \in 1..count |->
                       strip(slice(normalized, (k - 1) * step,
                                   Min((k - 1) * step + chunk_size, Len(normalized))))]
    IN SelectSeq(trimmed, LAMBDA w : w # <<>>)

\* C16: for every text and every chunk_size > chunk_overlap >= 0,
\* chunk_overlap = 0 included, chunk_text returns the reference result, cut
\* with the parameters as they were passed.
C16_ReturnsReference ==
    (/\ ChunkTextEnded
     /\ chunking.chunk_size > chunking.chunk_overlap
     /\ chunking.chunk_overlap >= 0)
        => /\ chunking.status = "returned"
           /\ chunking.chunks = reference_chunks(chunking.text, chunking.chunk_size,
                                                 chunking.chunk_overlap)

(***************************************************************************)
(* Properties of a failed write.                                           *)
(***************************************************************************)
\* The latest call of thread t raised because a write failed, and no call
\* has started since.
WriteFailed(t) == outcome[t] = "PersistenceFailure" /\ pc[t] = "idle"

\* The store in memory ends with the whole batch of thread t's latest call,
\* counts equal, and a search for each vector of the batch that asks for
\* every entry returns the chunk stored with it.
HoldsBatchOf(t) ==
    LET n == Len(args[t].chunks)
        first == Len(index) - n
        records == build_records(args[t].chunks, call_no[t])
    IN /\ Len(index) = Len(metadata)
       /\ first >= 0
       /\ \A j \in 1..n :
             /\ index[first + j].vec = args[t].embeddings.rows[j]
             /\ index[first + j].src = <<call_no[t], j>>
             /\ metadata[first + j] = records[j]
             /\ \A found \in search(index, metadata,
                                     args[t].embeddings.rows[j], Len(index)) :
                   \E i \in 1..Len(found) :
                      /\ found[i].src = <<call_no[t], j>>
                      /\ found[i].content = args[t].chunks[j].content

\* The latest call of thread t returned, and no call has started since.
Returned(t) == outcome[t] = "returned" /\ pc[t] = "idle" /\ store = "ready"

\* Both files hold, at its position, every entry of the memory that was
\* never acknowledged: the batches of the earlier calls that raised.
UnackedWritten ==
    \A p \in 1..Len(metadata) :
        metadata[p].src \notin acked
           => /\ p <= IndexCount(index_file) /\ p <= Count(metadata_file)
              /\ load_index(index_file)[p] = index[p]
              /\ load_metadata(metadata_file)[p] = metadata[p]

\* C21: when add_documents raises because a write of the index file or of
\* the metadata file failed, both in-memory sequences hold the whole batch
\* and keep it (equal counts, and search on the instance returns the batch's
\* chunks); the next call on the instance that returns writes that batch to
\* both files together with its own.
C21_FailedWriteKeepsBatch ==
    /\ \A t \in Threads : WriteFailed(t) => HoldsBatchOf(t)
    /\ \A t \in Threads : Returned(t) => UnackedWritten

\* C21 witness: the first call raised on a write, the second call returned,
\* and both files hold the first call's entries, which were never
\* acknowledged, before the second call's.
C21_Witness ==
    /\ AtRest
    /\ outcome[1] = "returned"
    /\ call_no[1] = 2
    /\ \E p \in 1..Len(metadata) :
          /\ metadata[p].src = <<1, 1>>
          /\ <<1, 1>> \notin acked
          /\ p < Len(metadata)
          /\ metadata[Len(metadata)].src[1] = 2
          /\ metadata[Len(metadata)].src \in acked
          /\ index_file.kind = "whole" /\ read_index(index_file)[p].src = <<1, 1>>
          /\ metadata_file.kind = "whole" /\ metadata_file.data[p].src = <<1, 1>>
    /\ load_index(index_file) = index
    /\ load_metadata(metadata_file) = metadata

====
